---- MODULE Spec2Model ----
(***************************************************************************)
(* Asynchronous one-step/n-step Q-learning trainer (run_dqn.py).           *)
(*                                                                         *)
(* The model covers run() (the coordinator thread) and train_async_dqn()   *)
(* (one instance per worker thread), with test() inlined at the place      *)
(* worker 0 calls it.  Inside the training loop every statement that reads *)
(* or writes state shared between threads (agent.frame, the live and       *)
(* target weights, the flag training_finished) is a step of its own, so    *)
(* that TLC explores the interleavings the Python threads can produce;     *)
(* statements that touch only the worker's own variables and environment   *)
(* go with the shared access before them.                                  *)
(*                                                                         *)
(* In the run, numbers with a fractional part are kept exact as scaled      *)
(* integers: returns are stored in units of 1/GammaDen, epsilons in units  *)
(* of 1/(EpsScale * eps_steps).  update_epsilon on its own (EpsSpec) is     *)
(* computed as Python computes it, in binary64 floating point.             *)
(*                                                                         *)
(* Spec, FairSpec and SoloSpec are the runs in which no call raises;       *)
(* SaveFaultSpec, TrainFaultSpec and EnvFaultSpec add one raising call.    *)
(***************************************************************************)
EXTENDS Integers, Sequences, FiniteSets, TLC

(***************************************************************************)
(* Configuration (tf.app.flags), scaled down to a checkable size.          *)
(***************************************************************************)
threads == 2
total_frames == 2
tmax == 2
update_interval == 2
log_interval == 1
test_iter == 1
eps_steps == 1
\* eps_start = 1.0, in units of 1/EpsScale
EpsScale == 1000
eps_start == 1000
\* gamma = 0.99 = GammaNum / GammaDen
GammaNum == 99
GammaDen == 100
\* EPS_MIN_SAMPLES = 4*[0.1] + 3*[0.01] + 3*[0.5], as the set random.choice draws from
EPS_MIN_SAMPLES == {100, 10, 500}

(***************************************************************************)
(* Bounds on what the collaborators (environment, approximator,            *)
(* checkpoint store, random) may return.                                   *)
(***************************************************************************)
\* agent.action_size
action_size == 1
\* the largest frame count a restored checkpoint carries
MaxCkptFrame == 0
\* an evaluation episode ends after at most this many steps
MaxTestSteps == 2
\* With every worker running (Spec): the raw rewards env.step reports, the values
\* agent.predict_target returns, the minima random.choice draws.
RawRewards == {5}
QValues == {2}
EpsMinDraws == {100}
\* With worker 0 running alone (SoloSpec): wider collaborator outputs.
SoloRawRewards == {-5, -1, 0, 1, 5}
SoloQValues == {-2, 0, 2}

\* update_epsilon on its own (EpsSpec): the frame counts and annealing lengths it
\* is called with, and the values of the flag eps_start, in units of 1/EpsScale
MaxEpsFrames == 6
MaxEpsSteps == 3
EpsStartChoices == {1000, 500, 300}

Workers == 0 .. (threads - 1)
Actions == 0 .. (action_size - 1)

VARIABLES
    frame,               \* agent.frame, the shared frame counter
    training_finished,   \* module-level completion flag
    theta,               \* live weights, as the number of train() updates applied
    theta_target,        \* target weights, as the live version last copied (-1: own initialisation)
    syncing,             \* workers inside agent.update_target()
    global_epsilons,     \* global_epsilons[i], scaled
    cpc,                 \* position of the coordinator in run()
    cidx,                \* loop index of the coordinator's start / join loops
    pc,                  \* position of each worker in train_async_dqn(); "raised": left by an exception
    eps_min,             \* per worker: sampled minimum epsilon
    epsilon,             \* per worker: current epsilon, scaled
    last_logging,        \* per worker
    last_target_update,  \* per worker
    terminal,            \* per worker
    screen,              \* per worker: "none" before the first reset, else "obs"
    batch_states,        \* per worker
    batch_rewards,       \* per worker, in units of 1/GammaDen
    batch_actions,       \* per worker
    env,                 \* per worker environment: "unreset", "running", "terminal"
    test_ep,             \* per worker: index of the evaluation episode in test()
    test_len,            \* per worker: steps taken in the current evaluation episode
    ckpt_step,           \* global_step of the latest checkpoint written (-1: none)
    summary_step,        \* total_frame_step of the latest metrics record (-1: none)
    frame0,              \* history: agent.frame when the workers were started
    env_steps,           \* history: training env.step calls completed, all workers
    log_delta,           \* history: per worker, agent.frame - last_logging as read at line 212
    eps_call             \* one call of update_epsilon on its own: arguments and result

vars == << frame, training_finished, theta, theta_target, syncing, global_epsilons,
           cpc, cidx, pc, eps_min, epsilon, last_logging, last_target_update,
           terminal, screen, batch_states, batch_rewards, batch_actions, env,
           test_ep, test_len, ckpt_step, summary_step, frame0, env_steps, log_delta,
           eps_call >>

shared == << frame, training_finished, theta, theta_target, syncing, global_epsilons >>
coord == << cpc, cidx >>
locals == << eps_min, epsilon, last_logging, last_target_update, terminal, screen >>
batch == << batch_states, batch_rewards, batch_actions >>
evalv == << test_ep, test_len >>
outputs == << ckpt_step, summary_step >>
history == << frame0, env_steps, log_delta >>
probe == << eps_call >>

(***************************************************************************)
(* Pure functions.                                                         *)
(***************************************************************************)

\* update_epsilon in exact arithmetic, the result in units of 1/(EpsScale * steps).
\* The run model uses it: there epsilon only decides which of the two branches of
\* lines 188-193 can be taken.
update_epsilon_scaled(frames, steps, emin) ==
    LET eps == eps_start * steps - frames * (eps_start - emin)
    IN  IF eps > emin * steps THEN eps ELSE emin * steps

\* np.clip(reward, -1, 1)
clip(r, lo, hi) == IF r < lo THEN lo ELSE IF r > hi THEN hi ELSE r

\* lines 196-199: the value appended to batch_rewards, in units of 1/GammaDen
\* (variant: without the test of line 198)
stored_reward_always_bootstrapped(r, term, q) == GammaDen * clip(r, -1, 1) + GammaNum * q
stored_reward(r, term, q) ==
    IF term THEN GammaDen * clip(r, -1, 1)
    ELSE GammaDen * clip(r, -1, 1) + GammaNum * q

(***************************************************************************)
(* update_epsilon as Python computes it.                                   *)
(***************************************************************************)

\* Python floats are IEEE 754 binary64: MantBits significant bits, every
\* operation rounded to nearest, ties to even.  A magnitude is kept exactly, as
\* the set of the exponents of its binary digits that are 1.
MantBits == 53

Xor(A, B) == (A \ B) \cup (B \ A)
Top(A) == CHOOSE e \in A : \A d \in A : d <= e

RECURSIVE MagAdd(_, _)
MagAdd(A, B) == IF B = {} THEN A ELSE MagAdd(Xor(A, B), { e + 1 : e \in A \cap B })

\* A - B for A >= B
RECURSIVE MagSub(_, _)
MagSub(A, B) == IF B = {} THEN A ELSE MagSub(Xor(A, B), { e + 1 : e \in B \ A })

MagLess(A, B) == A # B /\ Top(Xor(A, B)) \in B

RECURSIVE MagMul(_, _)
MagMul(A, B) ==
    IF B = {} THEN {}
    ELSE LET e == Top(B) IN MagAdd({ a + e : a \in A }, MagMul(A, B \ {e}))

\* round to nearest, ties to even, at MantBits significant bits
Round(A) ==
    IF A = {} THEN {}
    ELSE LET lsb == Top(A) - (MantBits - 1)
             keep == { e \in A : e >= lsb }
             half == (lsb - 1) \in A
             sticky == \E e \in A : e < lsb - 1
         IN  IF half /\ (sticky \/ lsb \in A) THEN MagAdd(keep, {lsb}) ELSE keep

RECURSIVE NatBits(_)
NatBits(n) ==
    IF n = 0 THEN {}
    ELSE { e + 1 : e \in NatBits(n \div 2) } \cup (IF n % 2 = 1 THEN {0} ELSE {})

RECURSIVE BitLen(_)
BitLen(n) == IF n = 0 THEN 0 ELSE 1 + BitLen(n \div 2)

\* the binary digits of r / d (r < d) from exponent e down to `last`, and one
\* digit below `last` that stands for a remainder that is not zero
RECURSIVE FracBits(_, _, _, _)
FracBits(r, d, e, last) ==
    IF e < last THEN (IF r # 0 THEN {e} ELSE {})
    ELSE IF 2 * r >= d THEN {e} \cup FracBits(2 * r - d, d, e - 1, last)
         ELSE FracBits(2 * r, d, e - 1, last)

\* a float is a sign and a magnitude
Float(neg, mag) == [neg |-> neg /\ mag # {}, mag |-> mag]

\* the float nearest to n / d, for naturals n and d > 0: the value of a decimal
\* literal, and of the true division of two small whole numbers
Quot(n, d) ==
    Float(FALSE, Round(NatBits(n \div d)
                       \cup FracBits(n % d, d, -1, -(MantBits + 2 + BitLen(d)))))

FNeg(x) == Float(~x.neg, x.mag)

FAdd(x, y) ==
    IF x.neg = y.neg THEN Float(x.neg, Round(MagAdd(x.mag, y.mag)))
    ELSE IF MagLess(x.mag, y.mag) THEN Float(y.neg, Round(MagSub(y.mag, x.mag)))
    ELSE Float(x.neg, Round(MagSub(x.mag, y.mag)))

FSub(x, y) == FAdd(x, FNeg(y))

FMul(x, y) == Float(x.neg # y.neg, Round(MagMul(x.mag, y.mag)))

FLess(x, y) ==
    IF x.neg # y.neg THEN x.neg
    ELSE IF x.neg THEN MagLess(y.mag, x.mag) ELSE MagLess(x.mag, y.mag)

FLeq(x, y) == x = y \/ FLess(x, y)

\* an epsilon given in units of 1/EpsScale, as the float of its decimal literal
Eps(m) == Quot(m, EpsScale)

\* variant: line 69 without the clamp
update_epsilon_unclamped(start, frames, steps, emin) ==
    FSub(start, FMul(Quot(frames, steps), FSub(start, emin)))

\* lines 68-69, with FLAGS.eps_start as the first argument; frames and eps_steps
\* are whole numbers, start and emin floats
update_epsilon(start, frames, steps, emin) ==
    LET eps == FSub(start, FMul(Quot(frames, steps), FSub(start, emin)))
    IN  IF FLess(emin, eps) THEN eps ELSE emin

(***************************************************************************)
(* Collaborators whose code is outside run_dqn.py (asyncrl.agent).         *)
(***************************************************************************)

\* agent.frame_increment(): atomic increment returning the new value
frame_increment(f) == f + 1

\* agent.train(states, actions, rewards): one gradient update of the live weights
train(th) == th + 1

\* agent.update_target(): the target weights become a copy of the live weights
update_target(th) == th

\* no call of update_epsilon is being looked at
NoCall == [made |-> FALSE]

\* the state after construction, before run() restores a checkpoint
Idle ==
    /\ frame = 0
    /\ training_finished = FALSE
    /\ theta = 0
    /\ theta_target = -1
    /\ syncing = {}
    /\ global_epsilons = [w \in Workers |-> 0]
    /\ cpc = "restore"
    /\ cidx = 0
    /\ pc = [w \in Workers |-> "idle"]
    /\ eps_min = [w \in Workers |-> 0]
    /\ epsilon = [w \in Workers |-> 0]
    /\ last_logging = [w \in Workers |-> 0]
    /\ last_target_update = [w \in Workers |-> 0]
    /\ terminal = [w \in Workers |-> TRUE]
    /\ screen = [w \in Workers |-> "none"]
    /\ batch_states = [w \in Workers |-> << >>]
    /\ batch_rewards = [w \in Workers |-> << >>]
    /\ batch_actions = [w \in Workers |-> << >>]
    /\ env = [w \in Workers |-> "unreset"]
    /\ test_ep = [w \in Workers |-> 0]
    /\ test_len = [w \in Workers |-> 0]
    /\ ckpt_step = -1
    /\ summary_step = -1
    /\ frame0 = 0
    /\ env_steps = 0
    /\ log_delta = [w \in Workers |-> 0]

Init == Idle /\ eps_call = NoCall

(***************************************************************************)
(* run(): the coordinator.                                                 *)
(***************************************************************************)

\* lines 258-262: restore the latest checkpoint, if any, and sync the target.
\* A checkpoint carries the frame count of its save (line 214, global_step).
CoordRestore ==
    /\ cpc = "restore"
    /\ \/ \E f \in 0 .. MaxCkptFrame :
            /\ frame' = f
            /\ frame0' = f
            /\ theta_target' = update_target(theta)
       \/ UNCHANGED << frame, frame0, theta_target >>
    /\ cpc' = "start"
    /\ UNCHANGED << probe, training_finished, theta, syncing, global_epsilons, cidx, pc,
                    locals, batch, env, evalv, outputs, env_steps, log_delta >>

\* lines 266-268: p.start() for one thread
CoordStart ==
    /\ cpc = "start"
    /\ IF cidx < threads
       THEN /\ pc' = [pc EXCEPT ![cidx] = "begin"]
            /\ cidx' = cidx + 1
            /\ cpc' = cpc
       ELSE /\ cpc' = "poll"
            /\ cidx' = 0
            /\ pc' = pc
    /\ UNCHANGED << probe, shared, locals, batch, env, evalv, outputs, history >>

\* lines 269-273: while not training_finished: sleep (FLAGS.render is off)
CoordPoll ==
    /\ cpc = "poll"
    /\ cpc' = IF training_finished THEN "join" ELSE "poll"
    /\ UNCHANGED << probe, shared, cidx, pc, locals, batch, env, evalv, outputs, history >>

\* line 275: join returns when the thread has ended, whether train_async_dqn
\* returned or an exception left it (no statement of run_dqn.py catches one)
\* (variant: only a thread whose function returned counts as ended)
ended_by_return(w) == pc[w] = "done"
ended(w) == pc[w] \in {"done", "raised"}

\* variant: the loop of lines 274-275 without waiting for the thread to end
CoordJoin_nowait ==
    /\ cpc = "join"
    /\ IF cidx < threads
       THEN /\ cidx' = cidx + 1
            /\ cpc' = cpc
       ELSE /\ cpc' = "returned"
            /\ cidx' = cidx
    /\ UNCHANGED << probe, shared, pc, locals, batch, env, evalv, outputs, history >>

\* lines 274-275: p.join() for one thread; leaving the loop ends the session block
CoordJoin ==
    /\ cpc = "join"
    /\ IF cidx < threads
       THEN /\ ended(cidx)
            /\ cidx' = cidx + 1
            /\ cpc' = cpc
       ELSE /\ cpc' = "returned"
            /\ cidx' = cidx
    /\ UNCHANGED << probe, shared, pc, locals, batch, env, evalv, outputs, history >>

(***************************************************************************)
(* train_async_dqn(): one worker thread, thread_idx = w.                   *)
(***************************************************************************)

\* line 208: thread 0 does the target updates and the logging
\* (variant: every thread does them)
designated_all(w) == TRUE
designated(w) == w = 0

\* line 177: the condition of the training loop
\* (variants: off by one, either way)
budget_left_early(f) == f < total_frames - 1
budget_left_late(f) == f <= total_frames
budget_left(f) == f < total_frames

\* line 183: the condition of the batch update loop
\* (variant: <= for <)
batch_open_late(term, len) == ~term /\ len <= tmax
batch_open(term, len) == ~term /\ len < tmax

\* line 209
sync_due(f, last) == f - last >= update_interval

\* line 212
\* (variant: without `and terminal`)
log_due_anywhere(f, last, term) == f - last >= log_interval
log_due(f, last, term) == f - last >= log_interval /\ term

\* lines 170-175: sample the minimum epsilon, first epsilon, cadence marks, all
\* before the worker's first step
BeginOn(w, samples) ==
    /\ pc[w] = "begin"
    /\ \E m \in samples :
            /\ eps_min' = [eps_min EXCEPT ![w] = m]
            /\ epsilon' = [epsilon EXCEPT ![w] = update_epsilon_scaled(frame, eps_steps, m)]
    /\ last_logging' = [last_logging EXCEPT ![w] = frame]
    /\ last_target_update' = [last_target_update EXCEPT ![w] = frame]
    /\ terminal' = [terminal EXCEPT ![w] = TRUE]
    /\ pc' = [pc EXCEPT ![w] = "loop"]
    /\ UNCHANGED << probe, shared, coord, screen, batch, env, evalv, outputs, history >>

Begin(w) == BeginOn(w, EpsMinDraws)

SoloBegin(w) == BeginOn(w, EPS_MIN_SAMPLES)

\* variant: line 180 is missing, terminal stays True after the reset
Loop_terminal_kept(w) ==
    /\ pc[w] = "loop"
    /\ IF budget_left(frame)
       THEN /\ batch_states' = [batch_states EXCEPT ![w] = << >>]
            /\ batch_rewards' = [batch_rewards EXCEPT ![w] = << >>]
            /\ batch_actions' = [batch_actions EXCEPT ![w] = << >>]
            /\ IF terminal[w]
               THEN /\ screen' = [screen EXCEPT ![w] = "obs"]
                    /\ env' = [env EXCEPT ![w] = "running"]
                    /\ terminal' = terminal
               ELSE UNCHANGED << terminal, screen, env >>
            /\ pc' = [pc EXCEPT ![w] = "batch"]
       ELSE /\ pc' = [pc EXCEPT ![w] = "finish"]
            /\ UNCHANGED << batch, terminal, screen, env >>
    /\ UNCHANGED << probe, shared, coord, eps_min, epsilon, last_logging, last_target_update,
                    evalv, outputs, history >>

\* lines 177-181: loop test, fresh batch, reset of the environment after a terminal step
Loop(w) ==
    /\ pc[w] = "loop"
    /\ IF budget_left(frame)
       THEN /\ batch_states' = [batch_states EXCEPT ![w] = << >>]
            /\ batch_rewards' = [batch_rewards EXCEPT ![w] = << >>]
            /\ batch_actions' = [batch_actions EXCEPT ![w] = << >>]
            /\ IF terminal[w]
               THEN /\ terminal' = [terminal EXCEPT ![w] = FALSE]
                    /\ screen' = [screen EXCEPT ![w] = "obs"]
                    /\ env' = [env EXCEPT ![w] = "running"]
               ELSE UNCHANGED << terminal, screen, env >>
            /\ pc' = [pc EXCEPT ![w] = "batch"]
       ELSE /\ pc' = [pc EXCEPT ![w] = "finish"]
            /\ UNCHANGED << batch, terminal, screen, env >>
    /\ UNCHANGED << probe, shared, coord, eps_min, epsilon, last_logging, last_target_update,
                    evalv, outputs, history >>

\* line 185: the counter after the call agent.frame_increment()
\* (variant: the call is missing)
counted_lost(f) == f
counted(f) == frame_increment(f)

\* lines 188-193: random.random() < epsilon picks a random action, else the greedy one
may_explore(e) == e > 0
may_exploit(e) == e < EpsScale * eps_steps

\* lines 183-201: one pass of the batch update loop.  frame_increment is the only
\* statement of the pass that other threads can observe; the rest works on the
\* worker's own environment and lists, so the pass is one step.
StepOn(w, rewards, qvalues) ==
    /\ pc[w] = "batch"
    /\ batch_open(terminal[w], Len(batch_states[w]))
    /\ frame' = counted(frame)
    /\ batch_states' = [batch_states EXCEPT ![w] = Append(@, screen[w])]
    /\ may_explore(epsilon[w]) \/ may_exploit(epsilon[w])
    /\ \E a \in Actions, r \in rewards, term \in BOOLEAN, q \in qvalues :
            /\ terminal' = [terminal EXCEPT ![w] = term]
            /\ env' = [env EXCEPT ![w] = IF term THEN "terminal" ELSE "running"]
            /\ batch_rewards' = [batch_rewards EXCEPT ![w] = Append(@, stored_reward(r, term, q))]
            /\ batch_actions' = [batch_actions EXCEPT ![w] = Append(@, a)]
    /\ screen' = [screen EXCEPT ![w] = "obs"]
    /\ env_steps' = env_steps + 1
    /\ UNCHANGED << probe, training_finished, theta, theta_target, syncing, global_epsilons,
                    coord, pc, eps_min, epsilon, last_logging, last_target_update,
                    evalv, outputs, frame0, log_delta >>

Step(w) == StepOn(w, RawRewards, QValues)

SoloStep(w) == StepOn(w, SoloRawRewards, SoloQValues)

\* variant: a worker that finds the budget used up while its segment is open
\* leaves at once and drops the segment
Train_preempted(w) ==
    /\ pc[w] = "batch"
    /\ IF budget_left(frame)
       THEN /\ ~batch_open(terminal[w], Len(batch_states[w]))
            /\ theta' = train(theta)
            /\ pc' = [pc EXCEPT ![w] = "anneal"]
       ELSE /\ theta' = theta
            /\ pc' = [pc EXCEPT ![w] = "finish"]
    /\ UNCHANGED << probe, frame, training_finished, theta_target, syncing, global_epsilons,
                    coord, locals, batch, env, evalv, outputs, history >>

\* line 183 false, line 203: the batch is closed and submitted to agent.train
Train(w) ==
    /\ pc[w] = "batch"
    /\ ~batch_open(terminal[w], Len(batch_states[w]))
    /\ theta' = train(theta)
    /\ pc' = [pc EXCEPT ![w] = "anneal"]
    /\ UNCHANGED << probe, frame, training_finished, theta_target, syncing, global_epsilons,
                    coord, locals, batch, env, evalv, outputs, history >>

\* lines 205-208
Anneal(w) ==
    /\ pc[w] = "anneal"
    /\ epsilon' = [epsilon EXCEPT ![w] = update_epsilon_scaled(frame, eps_steps, eps_min[w])]
    /\ global_epsilons' = [global_epsilons EXCEPT ![w] = update_epsilon_scaled(frame, eps_steps, eps_min[w])]
    /\ pc' = [pc EXCEPT ![w] = IF designated(w) THEN "sync_check" ELSE "loop"]
    /\ UNCHANGED << probe, frame, training_finished, theta, theta_target, syncing,
                    coord, eps_min, last_logging, last_target_update, terminal, screen,
                    batch, env, evalv, outputs, history >>

\* line 209
SyncCheck(w) ==
    /\ pc[w] = "sync_check"
    /\ pc' = [pc EXCEPT ![w] = IF sync_due(frame, last_target_update[w])
                               THEN "sync_set" ELSE "log_check"]
    /\ UNCHANGED << probe, shared, coord, locals, batch, env, evalv, outputs, history >>

\* line 210, and the call of agent.update_target
SyncSet(w) ==
    /\ pc[w] = "sync_set"
    /\ last_target_update' = [last_target_update EXCEPT ![w] = frame]
    /\ syncing' = syncing \cup {w}
    /\ pc' = [pc EXCEPT ![w] = "sync"]
    /\ UNCHANGED << probe, frame, training_finished, theta, theta_target, global_epsilons,
                    coord, eps_min, epsilon, last_logging, terminal, screen,
                    batch, env, evalv, outputs, history >>

\* line 211: agent.update_target copies the weights and returns
Sync(w) ==
    /\ pc[w] = "sync"
    /\ theta_target' = update_target(theta)
    /\ syncing' = syncing \ {w}
    /\ pc' = [pc EXCEPT ![w] = "log_check"]
    /\ UNCHANGED << probe, frame, training_finished, theta, global_epsilons,
                    coord, locals, batch, env, evalv, outputs, history >>

\* line 212
LogCheck(w) ==
    /\ pc[w] = "log_check"
    /\ IF log_due(frame, last_logging[w], terminal[w])
       THEN /\ log_delta' = [log_delta EXCEPT ![w] = frame - last_logging[w]]
            /\ pc' = [pc EXCEPT ![w] = "log_set"]
       ELSE /\ log_delta' = log_delta
            /\ pc' = [pc EXCEPT ![w] = "loop"]
    /\ UNCHANGED << probe, shared, coord, locals, batch, env, evalv, outputs,
                    frame0, env_steps >>

\* line 213
LogSet(w) ==
    /\ pc[w] = "log_set"
    /\ last_logging' = [last_logging EXCEPT ![w] = frame]
    /\ pc' = [pc EXCEPT ![w] = "save"]
    /\ UNCHANGED << probe, shared, coord, eps_min, epsilon, last_target_update, terminal, screen,
                    batch, env, evalv, outputs, history >>

\* lines 214-215: saver.save(..., global_step=agent.frame)
Save(w) ==
    /\ pc[w] = "save"
    /\ ckpt_step' = frame
    /\ test_ep' = [test_ep EXCEPT ![w] = 0]
    /\ pc' = [pc EXCEPT ![w] = "test"]
    /\ UNCHANGED << probe, shared, coord, locals, batch, env, test_len, summary_step, history >>

\* test(), lines 141-144: next episode, env.reset(); after `episodes` episodes test()
\* returns and lines 217-227 follow: averages, print, agent_summary.write_summary
TestEpisode(w) ==
    /\ pc[w] = "test"
    /\ IF test_ep[w] < test_iter
       THEN /\ env' = [env EXCEPT ![w] = "running"]
            /\ test_len' = [test_len EXCEPT ![w] = 0]
            /\ pc' = [pc EXCEPT ![w] = "test_step"]
            /\ UNCHANGED << test_ep, summary_step, log_delta >>
       ELSE /\ summary_step' = frame
            /\ log_delta' = [log_delta EXCEPT ![w] = 0]
            /\ test_ep' = [test_ep EXCEPT ![w] = 0]
            /\ pc' = [pc EXCEPT ![w] = "loop"]
            /\ UNCHANGED << env, test_len >>
    /\ UNCHANGED << probe, shared, coord, locals, batch, ckpt_step, frame0, env_steps >>

\* variant: the evaluation step counts as a frame, as a training step does (line 185)
TestStep_counted(w) ==
    /\ pc[w] = "test_step"
    /\ frame' = counted(frame)
    /\ \E term \in BOOLEAN :
            /\ test_len[w] + 1 >= MaxTestSteps => term
            /\ IF term
               THEN /\ env' = [env EXCEPT ![w] = "terminal"]
                    /\ test_ep' = [test_ep EXCEPT ![w] = @ + 1]
                    /\ test_len' = [test_len EXCEPT ![w] = 0]
                    /\ pc' = [pc EXCEPT ![w] = "test"]
               ELSE /\ test_len' = [test_len EXCEPT ![w] = @ + 1]
                    /\ UNCHANGED << env, test_ep, pc >>
    /\ UNCHANGED << probe, training_finished, theta, theta_target, syncing, global_epsilons,
                    coord, locals, batch, outputs, history >>

\* test(), lines 145-150: the action is np.argmax of agent.predict_rewards(s), with
\* no draw from random and no use of epsilon; env.step(..., test=True); the
\* function's own `s` and `terminal` are not those of train_async_dqn
TestStep(w) ==
    /\ pc[w] = "test_step"
    /\ \E term \in BOOLEAN :
            /\ test_len[w] + 1 >= MaxTestSteps => term
            /\ IF term
               THEN /\ env' = [env EXCEPT ![w] = "terminal"]
                    /\ test_ep' = [test_ep EXCEPT ![w] = @ + 1]
                    /\ test_len' = [test_len EXCEPT ![w] = 0]
                    /\ pc' = [pc EXCEPT ![w] = "test"]
               ELSE /\ test_len' = [test_len EXCEPT ![w] = @ + 1]
                    /\ UNCHANGED << env, test_ep, pc >>
    /\ UNCHANGED << probe, shared, coord, locals, batch, outputs, history >>

\* variant: line 229 without the global declaration of line 228
Finish_local(w) ==
    /\ pc[w] = "finish"
    /\ pc' = [pc EXCEPT ![w] = "exit"]
    /\ UNCHANGED << probe, shared, coord, locals, batch, env, evalv, outputs, history >>

\* lines 228-229
Finish(w) ==
    /\ pc[w] = "finish"
    /\ training_finished' = TRUE
    /\ pc' = [pc EXCEPT ![w] = "exit"]
    /\ UNCHANGED << probe, frame, theta, theta_target, syncing, global_epsilons,
                    coord, locals, batch, env, evalv, outputs, history >>

\* line 230: the last print; the thread ends
Exit(w) ==
    /\ pc[w] = "exit"
    /\ pc' = [pc EXCEPT ![w] = "done"]
    /\ UNCHANGED << probe, shared, coord, locals, batch, env, evalv, outputs, history >>

\* everything after the first line of train_async_dqn and outside the batch loop
Rest(w) ==
    \/ Loop(w) \/ Train(w) \/ Anneal(w)
    \/ SyncCheck(w) \/ SyncSet(w) \/ Sync(w)
    \/ LogCheck(w) \/ LogSet(w) \/ Save(w)
    \/ TestEpisode(w) \/ TestStep(w)
    \/ Finish(w) \/ Exit(w)

Worker(w) == Begin(w) \/ Step(w) \/ Rest(w)

SoloWorker(w) == SoloBegin(w) \/ SoloStep(w) \/ Rest(w)

Coordinator == CoordRestore \/ CoordStart \/ CoordPoll \/ CoordJoin

Next == Coordinator \/ \E w \in Workers : Worker(w)

Spec == Init /\ [][Next]_vars

\* As long as some thread can take a step that changes the state, one is taken:
\* the interpreter always runs a runnable thread.  Nothing is assumed about
\* which thread it runs.
Fairness == WF_vars(Next)

FairSpec == Spec /\ Fairness

\* The runs in which only worker 0 has been scheduled so far, with the wider
\* collaborator outputs.
SoloNext == Coordinator \/ SoloWorker(0)

SoloSpec == Init /\ [][SoloNext]_vars

(***************************************************************************)
(* Calls that raise.  train_async_dqn, test and run have no try statement,  *)
(* so an exception raised by a collaborator leaves train_async_dqn at the   *)
(* call and ends the thread.  Each specification below lets one call of one *)
(* kind raise, once.                                                        *)
(***************************************************************************)

NoneRaised == \A v \in Workers : pc[v] # "raised"

\* line 214: saver.save raises; line 213 has already run
SaveFails(w) ==
    /\ pc[w] = "save"
    /\ NoneRaised
    /\ pc' = [pc EXCEPT ![w] = "raised"]
    /\ UNCHANGED << probe, shared, coord, locals, batch, env, evalv, outputs, history >>

SaveFaultNext == Next \/ SaveFails(0)

SaveFaultSpec == Init /\ [][SaveFaultNext]_vars

\* line 203: agent.train raises
TrainFails(w) ==
    /\ pc[w] = "batch"
    /\ ~batch_open(terminal[w], Len(batch_states[w]))
    /\ NoneRaised
    /\ pc' = [pc EXCEPT ![w] = "raised"]
    /\ UNCHANGED << probe, shared, coord, locals, batch, env, evalv, outputs, history >>

TrainFaultNext == Next \/ \E w \in Workers : TrainFails(w)

TrainFaultSpec == Init /\ [][TrainFaultNext]_vars

\* line 181: env.reset_random raises
ResetFails(w) ==
    /\ pc[w] = "loop"
    /\ budget_left(frame)
    /\ terminal[w]
    /\ NoneRaised
    /\ pc' = [pc EXCEPT ![w] = "raised"]
    /\ batch_states' = [batch_states EXCEPT ![w] = << >>]
    /\ batch_rewards' = [batch_rewards EXCEPT ![w] = << >>]
    /\ batch_actions' = [batch_actions EXCEPT ![w] = << >>]
    /\ terminal' = [terminal EXCEPT ![w] = FALSE]
    /\ UNCHANGED << probe, shared, coord, eps_min, epsilon, last_logging,
                    last_target_update, screen, env, evalv, outputs, history >>

\* line 195: env.step raises; lines 185-186 have already run
StepFails(w) ==
    /\ pc[w] = "batch"
    /\ batch_open(terminal[w], Len(batch_states[w]))
    /\ NoneRaised
    /\ frame' = counted(frame)
    /\ batch_states' = [batch_states EXCEPT ![w] = Append(@, screen[w])]
    /\ pc' = [pc EXCEPT ![w] = "raised"]
    /\ UNCHANGED << probe, training_finished, theta, theta_target, syncing,
                    global_epsilons, coord, locals, batch_rewards, batch_actions,
                    env, evalv, outputs, history >>

\* test(), lines 143 and 147: env.reset or env.step raises during the evaluation
TestFails(w) ==
    /\ pc[w] \in {"test", "test_step"}
    /\ test_ep[w] < test_iter
    /\ NoneRaised
    /\ pc' = [pc EXCEPT ![w] = "raised"]
    /\ UNCHANGED << probe, shared, coord, locals, batch, env, evalv, outputs, history >>

EnvFails(w) == ResetFails(w) \/ StepFails(w) \/ TestFails(w)

EnvFaultNext == Next \/ \E w \in Workers : EnvFails(w)

EnvFaultSpec == Init /\ [][EnvFaultNext]_vars

(***************************************************************************)
(* update_epsilon called on its own.                                       *)
(***************************************************************************)

\* the arguments of one call: any frame count, annealing length and sampled
\* minimum, under any of the values of the flag eps_start
EpsInit ==
    /\ Idle
    /\ \E st \in EpsStartChoices, f \in 0 .. MaxEpsFrames, n \in 1 .. MaxEpsSteps,
          m \in EPS_MIN_SAMPLES :
            eps_call = [made |-> FALSE, eps_start |-> st, frames |-> f,
                        eps_steps |-> n, eps_min |-> m]

\* the call returns
EpsApply ==
    /\ eps_call # NoCall
    /\ ~eps_call.made
    /\ eps_call' = [made |-> TRUE, eps_start |-> eps_call.eps_start,
                    frames |-> eps_call.frames, eps_steps |-> eps_call.eps_steps,
                    eps_min |-> eps_call.eps_min,
                    result |-> update_epsilon(Eps(eps_call.eps_start), eps_call.frames,
                                              eps_call.eps_steps, Eps(eps_call.eps_min))]
    /\ UNCHANGED << shared, coord, pc, locals, batch, env, evalv, outputs, history >>

EpsNext == EpsApply

EpsSpec == EpsInit /\ [][EpsNext]_vars
(***************************************************************************)
(* Properties.                                                             *)
(***************************************************************************)

Started(w) == pc[w] \notin {"idle", "begin"}
InLoop(w) == pc[w] \notin {"idle", "begin", "finish", "exit", "done"}
AllDone == \A w \in Workers : pc[w] = "done"
Entries(w) == 1 .. Len(batch_rewards[w])

\* C1: the frame counter loses no update and counts none twice: it always equals
\* its value at start plus the number of training environment steps of all
\* workers together, every increment yields the next value (so no two calls
\* return the same one), and it never decreases.
C1_FrameCounterExact ==
    /\ [](frame = frame0 + env_steps)
    /\ [][cpc # "restore" =>
             /\ frame' >= frame
             /\ frame' # frame => frame' = frame + 1 /\ env_steps' = env_steps + 1
             /\ env_steps' # env_steps => frame' = frame + 1]_vars

\* both workers have stepped their environments and the counter shows all the steps
C1_Witness ==
    /\ \A w \in Workers : Len(batch_states[w]) >= 1
    /\ env_steps >= 3
    /\ frame = frame0 + env_steps

\* C2: a segment never holds more than tmax steps; it is submitted to agent.train
\* only when it holds tmax steps or its last step was terminal, and no step is
\* appended to a segment in either condition.
C2_SegmentFlush ==
    /\ [](\A w \in Workers :
            /\ Len(batch_states[w]) <= tmax
            /\ Len(batch_rewards[w]) <= tmax
            /\ Len(batch_actions[w]) <= tmax)
    /\ [][\A w \in Workers :
            /\ (pc[w] = "batch" /\ pc'[w] = "anneal") =>
                    (Len(batch_states[w]) = tmax \/ terminal[w])
            /\ Len(batch_states'[w]) > Len(batch_states[w]) =>
                    (Len(batch_states[w]) < tmax /\ ~terminal[w])
            /\ (pc[w] = "batch" /\ (Len(batch_states[w]) = tmax \/ terminal[w])) =>
                    batch_states'[w] = batch_states[w]]_vars

\* one worker has trained on a full segment and the other on one cut short by a terminal step
C2_Witness ==
    \E w, v \in Workers :
        /\ pc[w] = "anneal" /\ Len(batch_states[w]) = tmax /\ ~terminal[w]
        /\ pc[v] = "anneal" /\ Len(batch_states[v]) < tmax /\ terminal[v]

\* C3, as claimed: every stored reward lies in [-1, 1].
C3_StoredRewardsClipped ==
    \A w \in Workers : \A i \in Entries(w) :
        -GammaDen <= batch_rewards[w][i] /\ batch_rewards[w][i] <= GammaDen

\* C3, amended: the value stored for a terminal step is the clipped reward and lies
\* in [-1, 1]; the value stored for a non-terminal step is the clipped reward plus
\* gamma times the target value, so it lies within 1 of gamma times some target value.
C3_ClippedPlusBootstrap ==
    \A w \in Workers : \A i \in Entries(w) :
        IF i = Len(batch_rewards[w]) /\ terminal[w]
        THEN batch_rewards[w][i] \in { GammaDen * c : c \in -1 .. 1 }
        ELSE \E q \in SoloQValues \cup QValues :
                /\ -GammaDen <= batch_rewards[w][i] - GammaNum * q
                /\ batch_rewards[w][i] - GammaNum * q <= GammaDen

\* a segment whose first stored value exceeds 1 and whose last step was terminal
C3_Witness ==
    /\ Len(batch_rewards[0]) = 2
    /\ terminal[0]
    /\ batch_rewards[0][1] > GammaDen
    /\ batch_rewards[0][2] = -GammaDen

\* C4, as claimed: once the counter has reached total_frames no worker increments it.
C4_NoIncrementPastBudget == [][frame >= total_frames => frame' = frame]_vars

\* C4, amended: when all workers have exited the counter is at least total_frames
\* and at most total_frames - 1 + threads * tmax; a worker starts a segment only
\* after reading a counter below total_frames, and finishes the segment it started.
C4_FinalCount ==
    /\ [](AllDone => /\ frame >= total_frames
                     /\ frame <= total_frames - 1 + threads * tmax)
    /\ [][\A w \in Workers :
            (pc[w] = "loop" /\ pc'[w] = "batch") => frame < total_frames]_vars

\* the run is over and the counter went past the budget
C4_Witness == AllDone /\ frame > total_frames

\* C5: with a scheduler that keeps running some runnable thread and evaluation
\* episodes that end, the run terminates: the counter reaches total_frames, the flag is set, every worker
\* leaves its training loop and run() returns.
C5_RunTerminates ==
    <>[](/\ cpc = "returned"
         /\ AllDone
         /\ training_finished
         /\ frame >= total_frames)

\* run() has returned after a run that reached its budget
C5_Witness == cpc = "returned" /\ training_finished /\ frame >= total_frames

\* C6: run() returns only after every worker thread has ended, so no call of
\* agent.predict_rewards, predict_target, train or update_target is in flight or
\* can start once it has returned.
C6_JoinBeforeReturn ==
    cpc = "returned" => AllDone /\ syncing = {}

\* the flag is set and the coordinator waits in join for a worker still in its loop
C6_Witness ==
    /\ cpc = "join"
    /\ \E w \in Workers : cidx = w /\ InLoop(w)

\* C7: the flag is set only after a worker has read a counter that reached
\* total_frames, so a set flag implies frame >= total_frames; it is never cleared;
\* a worker that sets it again changes nothing.
C7_FlagSound ==
    /\ [](training_finished => frame >= total_frames)
    /\ [][/\ training_finished => training_finished'
          /\ \A w \in Workers :
                (pc[w] = "finish" /\ pc'[w] = "exit") =>
                    /\ training_finished'
                    /\ training_finished => shared' = shared]_vars

\* every worker has set the flag
C7_Witness ==
    /\ training_finished
    /\ \A w \in Workers : pc[w] \in {"exit", "done"}

\* C8: once the workers run, only worker 0 writes the target weights, and only in
\* agent.update_target; agent.train leaves them as they are; at most one
\* update_target call is in progress.
C8_SingleTargetWriter ==
    /\ [](/\ syncing \subseteq {0}
          /\ \A w \in Workers : pc[w] \in {"sync_check", "sync_set", "sync"} => w = 0)
    /\ [][cpc # "restore" =>
             /\ theta_target' # theta_target => (pc[0] = "sync" /\ pc'[0] = "log_check")
             /\ theta' # theta => theta_target' = theta_target]_vars

\* worker 0 is inside update_target while another worker is in its batch loop
C8_Witness ==
    /\ syncing = {0}
    /\ \E w \in Workers \ {0} : pc[w] = "batch" /\ Len(batch_states[w]) >= 1

SyncPending == Started(0) /\ frame - last_target_update[0] >= update_interval
LogPending == Started(0) /\ frame - last_logging[0] >= log_interval

\* C9, as claimed: no cadence trigger is lost: worker 0, the only thread that serves
\* them, does not end while a target update or a checkpoint is due.
C9_NoTriggerLost ==
    pc[0] = "done" => ~SyncPending /\ ~LogPending

SaveStates == {"log_set", "save", "test", "test_step"}

\* C10, as claimed: a checkpoint is written only by worker 0, only after a terminal
\* step, and only when the frame count exceeds last_logging by more than log_interval.
C10_SaveOnlyWhenExceeded ==
    \A w \in Workers : pc[w] \in SaveStates =>
        /\ w = 0
        /\ terminal[w]
        /\ log_delta[w] > log_interval

\* C10, amended: a checkpoint is written only by worker 0, only after a terminal
\* step, and only when the frame count read at line 212 is at least log_interval
\* above last_logging.
C10_SaveOnlyWhenDue ==
    \A w \in Workers : pc[w] \in SaveStates =>
        /\ w = 0
        /\ terminal[w]
        /\ log_delta[w] >= log_interval

\* worker 0 evaluates after a checkpoint taken more than log_interval frames after the last mark
C10_Witness ==
    /\ pc[0] = "test_step"
    /\ ckpt_step >= 0
    /\ log_delta[0] > log_interval
\* a step taken by worker w inside test()
InTest(w) == pc[w] \in {"test", "test_step"} /\ test_ep[w] < test_iter
TestMoves(w) ==
    /\ InTest(w)
    /\ << pc[w], test_ep[w], test_len[w] >>' # << pc[w], test_ep[w], test_len[w] >>

C12_WithinRange ==
    eps_call.made =>
        /\ FLeq(Eps(eps_call.eps_min), eps_call.result)
        /\ FLeq(eps_call.result, Eps(eps_call.eps_start))

\* C12, amended: when eps_start is not below the sampled minimum, for every frame
\* count f >= 0 and eps_steps > 0, eps_min <= update_epsilon(...) <= eps_start.
C12_WithinRangeFromAbove ==
    (eps_call.made /\ eps_call.eps_start >= eps_call.eps_min) =>
        /\ FLeq(Eps(eps_call.eps_min), eps_call.result)
        /\ FLeq(eps_call.result, Eps(eps_call.eps_start))

\* a call in the middle of the annealing returned a value strictly between the
\* minimum and eps_start
C12_Witness ==
    /\ eps_call.made
    /\ 0 < eps_call.frames /\ eps_call.frames < eps_call.eps_steps
    /\ FLess(Eps(eps_call.eps_min), eps_call.result)
    /\ FLess(eps_call.result, Eps(eps_call.eps_start))

\* C13, as claimed, for eps_start not below the sampled minimum: for every frame
\* count f >= eps_steps the result of update_epsilon is eps_min exactly.
C13_FloorExact ==
    (/\ eps_call.made
     /\ eps_call.eps_start >= eps_call.eps_min
     /\ eps_call.frames >= eps_call.eps_steps) =>
        eps_call.result = Eps(eps_call.eps_min)
\* C14, as claimed: a checkpoint save that fails does not end worker 0: the worker
\* goes on with its training loop, and the failed attempt leaves the checkpoint
\* trigger pending, so that the save is tried again at the next tick.
C14_SaveFailureSkipped ==
    [][(pc[0] = "save" /\ pc'[0] \notin {"save", "test"}) =>
            /\ pc'[0] = "loop"
            /\ frame' - last_logging'[0] >= log_interval]_vars
\* what belongs to worker v alone
Own(v) == << pc[v], eps_min[v], epsilon[v], last_logging[v], last_target_update[v],
             terminal[v], screen[v], batch_states[v], batch_rewards[v],
             batch_actions[v], env[v], test_ep[v], test_len[v] >>
Raises(w) == pc[w] # "raised" /\ pc'[w] = "raised"

\* How far the run is from its end, as a number that every step lowers.  A
\* worker counts by its place in train_async_dqn, from the top of a thread not
\* yet started down to 0 for a thread that has ended; the first environment
\* step of a segment takes it back up, and that is paid for by the frame it
\* counts.  The coordinator counts by its place in run().
TestLeft(w) ==
    IF pc[w] = "test"
    THEN (test_iter - test_ep[w]) * (MaxTestSteps + 2) + 1
    ELSE (test_iter - test_ep[w] - 1) * (MaxTestSteps + 2) + 2 + (MaxTestSteps - test_len[w])
TestTop == test_iter * (MaxTestSteps + 2) + 1
WPos(w) ==
    CASE pc[w] \in {"done", "raised"} -> 0
      [] pc[w] = "exit" -> 1
      [] pc[w] = "finish" -> 2
      [] pc[w] = "batch" -> IF Len(batch_states[w]) = 0 THEN 3 ELSE 12 + TestTop
      [] pc[w] = "loop" -> 4
      [] pc[w] \in {"test", "test_step"} -> 4 + TestLeft(w)
      [] pc[w] = "save" -> 5 + TestTop
      [] pc[w] = "log_set" -> 6 + TestTop
      [] pc[w] = "log_check" -> 7 + TestTop
      [] pc[w] = "sync" -> 8 + TestTop
      [] pc[w] = "sync_set" -> 9 + TestTop
      [] pc[w] = "sync_check" -> 10 + TestTop
      [] pc[w] = "anneal" -> 11 + TestTop
      [] pc[w] = "begin" -> 13 + TestTop
      [] pc[w] = "idle" -> 14 + TestTop
CoordPos ==
    CASE cpc = "restore" -> 2 * threads + 5
      [] cpc = "start" -> 2 * threads + 4 - cidx
      [] cpc = "poll" -> threads + 3
      [] cpc = "join" -> threads + 2 - cidx
      [] cpc = "returned" -> 0
RECURSIVE PosSum(_)
PosSum(n) == IF n = 0 THEN 0 ELSE WPos(n - 1) + PosSum(n - 1)
FrameWeight == threads * (14 + TestTop) + 2 * threads + 6
Variant ==
    FrameWeight * (total_frames - 1 + threads * tmax - frame) + PosSum(threads) + CoordPos

\* a thread that was started and has not ended
Running(v) == pc[v] \notin {"idle", "done", "raised"}

\* C15: when an environment reset or step raises in one worker, that worker ends
\* without setting the completion flag and the step changes nothing that belongs
\* to another worker; every other worker that has not ended can take its next
\* step; and the run still completes: when no worker is running and run() has
\* not returned, the coordinator can take a step; every step brings the run
\* nearer to its end (Variant goes down and is never negative); and when run()
\* has returned the counter has reached total_frames, the flag is set and every
\* thread has ended.
C15_EnvFailureLocal ==
    /\ [][\A w \in Workers : Raises(w) =>
             /\ training_finished' = training_finished
             /\ \A v \in Workers \ {w} : Own(v)' = Own(v)]_vars
    /\ [](\A w \in Workers : pc[w] = "raised" =>
             \A v \in Workers \ {w} : Running(v) => ENABLED Worker(v))
    /\ []((cpc # "returned" /\ \A w \in Workers : ~Running(w)) =>
             ENABLED (Coordinator /\ vars' # vars))
    /\ [][Variant' < Variant]_vars
    /\ [](Variant >= 0)
    /\ [](cpc = "returned" => /\ training_finished
                              /\ frame >= total_frames
                              /\ \A w \in Workers : ended(w))

\* run() has returned although one worker was ended by an exception of its environment
C15_Witness ==
    /\ cpc = "returned"
    /\ \E w \in Workers : pc[w] = "raised"
    /\ \E w \in Workers : pc[w] = "done"
    /\ training_finished
\* C16, as claimed: when agent.train raises, the worker that called it is not
\* ended: it drops the segment and goes on in its training loop.
C16_TrainFailureSkipped ==
    [][\A w \in Workers :
          (/\ pc[w] = "batch"
           /\ ~batch_open(terminal[w], Len(batch_states[w]))
           /\ theta' = theta
           /\ pc'[w] # pc[w]) => pc'[w] \in {"loop", "anneal"}]_vars
\* C17: termination is cooperative and never in the middle of a batch: a worker
\* turns to its exit (line 228) only from the loop test of line 177; a worker
\* inside a segment leaves it only through agent.train, which updates the live
\* weights; and once the counter has reached total_frames no worker starts
\* another segment: at its next loop test it turns to the exit.
C17_CooperativeExit ==
    /\ [][\A w \in Workers :
            /\ (pc[w] # "finish" /\ pc'[w] = "finish") => pc[w] = "loop"
            /\ (pc[w] = "batch" /\ pc'[w] # "batch") =>
                    (pc'[w] = "anneal" /\ theta' = train(theta))
            /\ (pc[w] # "batch" /\ pc'[w] = "batch") =>
                    (pc[w] = "loop" /\ frame < total_frames)
            /\ (pc[w] = "loop" /\ pc'[w] # "loop" /\ frame >= total_frames) =>
                    pc'[w] = "finish"]_vars
    /\ [][(cpc # "restore" /\ frame >= total_frames) => frame' >= total_frames]_vars
    /\ [](\A w \in Workers : pc[w] \in {"finish", "exit", "done"} => frame >= total_frames)

\* the flag is set and the counter is past the budget, and a worker has just
\* trained on the full segment it had started before
C17_Witness ==
    /\ training_finished
    /\ \E w \in Workers :
            /\ pc[w] = "anneal"
            /\ Len(batch_states[w]) = tmax
            /\ frame >= total_frames + tmax
\* C18: with threads workers, tmax >= 1 and a counter that starts below
\* total_frames, the counter never exceeds total_frames - 1 + threads * tmax, in
\* particular not when all workers have exited: after the last loop test that
\* read a count below total_frames each worker adds at most tmax increments.
C18_OvershootBound ==
    (tmax >= 1 /\ frame0 < total_frames) =>
        /\ frame <= total_frames - 1 + threads * tmax
        /\ AllDone => (total_frames <= frame /\ frame - frame0 = env_steps)

\* all workers have exited and the counter stands at the bound itself
C18_Witness ==
    /\ AllDone
    /\ frame0 < total_frames
    /\ frame = total_frames - 1 + threads * tmax
\* C19: a worker steps its environment for training only after a reset since the
\* last terminal step.  Outside test() the worker's terminal flag tells whether
\* its environment needs a reset; a worker about to take a training step has an
\* environment that was reset and not yet terminal, and holds an observation of
\* it; test() is entered only with terminal = True and leaves the environment
\* terminal, so the next pass of the training loop resets it and replaces the
\* observation of before the evaluation.
C19_ResetBeforeStep ==
    \A w \in Workers :
        /\ pc[w] \notin {"test", "test_step"} => (terminal[w] <=> env[w] # "running")
        /\ pc[w] \in SaveStates => terminal[w]
        /\ (pc[w] = "test" /\ test_ep[w] > 0) => env[w] = "terminal"
        /\ (pc[w] = "batch" /\ batch_open(terminal[w], Len(batch_states[w]))) =>
                (env[w] = "running" /\ screen[w] = "obs")

\* worker 0 is in a segment it started after an evaluation
C19_Witness ==
    /\ summary_step >= 0
    /\ pc[0] = "batch"
    /\ Len(batch_states[0]) >= 1
    /\ env[0] = "running"
\* the segment of worker w is being submitted to agent.train, or has just been
Submitted(w) ==
    \/ pc[w] = "batch" /\ ~batch_open(terminal[w], Len(batch_states[w]))
    \/ pc[w] = "anneal"

\* C20: with tmax >= 1 every call of agent.train carries a segment that is not
\* empty: the states, actions and returns passed have the same length L with
\* 1 <= L <= tmax.
C20_TrainOnNonEmptySegment ==
    tmax >= 1 =>
        \A w \in Workers :
            /\ Len(batch_actions[w]) = Len(batch_rewards[w])
            /\ Len(batch_states[w]) = Len(batch_rewards[w])
            /\ Submitted(w) =>
                    (1 <= Len(batch_states[w]) /\ Len(batch_states[w]) <= tmax)

\* a worker has trained on a segment of one step, closed by a terminal step at
\* the first pass of a batch loop entered with an empty segment
C20_Witness ==
    \E w \in Workers :
        /\ pc[w] = "anneal"
        /\ terminal[w]
        /\ Len(batch_states[w]) = 1
        /\ Len(batch_actions[w]) = 1
        /\ Len(batch_rewards[w]) = 1
        /\ theta >= 2
====
